---- MODULE Spec2Model ----
(***************************************************************************)
(* Model of src/supply.rs of the RGB20 library: the Supply aggregate and   *)
(* the extraction of Issue, Epoch and BurnReplace records from validated   *)
(* contract operations.                                                    *)
(*                                                                         *)
(* Every constructor of the file is a pure function of its arguments, so   *)
(* a behaviour is: the caller's arguments (drawn in Init), then the call   *)
(* (one action per constructor), then the calls of the methods of the      *)
(* value it returned.                                                      *)
(***************************************************************************)
EXTENDS Integers, Sequences, FiniteSets

VARIABLES
    overflow_checks,  \* build profile: TRUE = arithmetic overflow panics
    component,        \* which constructor the caller's arguments are for
    args,             \* the arguments the caller passes
    pc,               \* "start", then what was called
    ret,              \* what the constructor returned
    out               \* what the method called on ret returned

vars == <<overflow_checks, component, args, pc, ret, out>>

----------------------------------------------------------------------------
(* Bounds and value domains *)

\* AtomicValue is u64; the model keeps the width but scales it down:
\* AtomicValueMax stands for u64::MAX and arithmetic is modulo AtomicValueMax + 1.
AtomicValueMax == 2

\* Longest list of assignments under one owned right type of an operation.
MaxAssignments == 2

AtomicValue == 0 .. AtomicValueMax

Modulus == AtomicValueMax + 1

\* width of the `index as u16` cast in the inflation fold
U16Modulus == 65536

NodeIds == {"n1", "n2"}

ContractIds == {"c1", "c2"}

Txids == {"t1", "t2"}

\* Option<T>
None == [some |-> FALSE]

Some(v) == [some |-> TRUE, v |-> v]

Option(S) == {None} \cup {Some(v) : v \in S}

\* bitcoin::OutPoint
OutPoint(txid, vout) == [txid |-> txid, vout |-> vout]

\* Result<T, Error>, and the third outcome of a call: a panic.
Ok(v) == [tag |-> "Ok", val |-> v]

Err(e) == [tag |-> "Err", err |-> e]

Panic == [tag |-> "Panic"]

NoValue == [tag |-> "NoValue"]

----------------------------------------------------------------------------
(* Supply *)

\* Supply::with
Supply_with(known_circulating, is_known, issue_limit) ==
    [known_circulating |-> known_circulating,
     is_known          |-> is_known,
     issue_limit       |-> issue_limit]

\* #[derive(Default)] on Supply: every field takes its type's default.
Supply_default ==
    [known_circulating |-> 0, is_known |-> None, issue_limit |-> 0]

\* Option<bool>::unwrap_or as used by total_circulating
unwrap_or(opt, default) == IF opt.some THEN opt.v ELSE default

\* total_circulating with an unassessed supply taken for a complete one
total_circulating_unknown_as_known(self) ==
    IF unwrap_or(self.is_known, TRUE)
    THEN Some(self.known_circulating)
    ELSE None

\* Supply::total_circulating
total_circulating(self) ==
    IF unwrap_or(self.is_known, FALSE)
    THEN Some(self.known_circulating)
    ELSE None

InitSupply ==
    /\ component = "Supply"
    /\ overflow_checks \in BOOLEAN
    /\ args \in [known_circulating : AtomicValue,
                 is_known          : Option(BOOLEAN),
                 issue_limit       : AtomicValue]
    /\ pc = "start"
    /\ ret = NoValue
    /\ out = NoValue

SupplyWith ==
    /\ component = "Supply"
    /\ pc = "start"
    /\ ret' = Supply_with(args.known_circulating, args.is_known, args.issue_limit)
    /\ pc' = "built"
    /\ UNCHANGED <<overflow_checks, component, args, out>>

\* Supply::default() takes no argument: the caller has no cap information.
SupplyDefault ==
    /\ component = "Supply"
    /\ pc = "start"
    /\ ret' = Supply_default
    /\ pc' = "default"
    /\ UNCHANGED <<overflow_checks, component, args, out>>

TotalCirculating ==
    /\ component = "Supply"
    /\ pc \in {"built", "default"}
    /\ out' = total_circulating(ret)
    /\ pc' = "queried"
    /\ UNCHANGED <<overflow_checks, component, args, ret>>

----------------------------------------------------------------------------
(* Operations (Genesis, Transition) as the extraction code reads them *)

\* seal::Revealed: a transaction output whose txid may be left to the witness
Seals == {[txid |-> None, vout |-> 0],
          [txid |-> Some("t1"), vout |-> 0],
          [txid |-> Some("t1"), vout |-> 1]}

\* One assignment of an owned right carrying a value: revealed (seal, amount)
\* or confidential.
ValueAssignments ==
    {[kind |-> "Confidential"]}
    \cup {[kind |-> "Revealed", seal |-> s, amount |-> a] : s \in Seals, a \in AtomicValue}

\* One assignment of a declarative owned right: a revealed seal or a
\* confidential one.
SealAssignments ==
    {[kind |-> "Confidential"]}
    \cup {[kind |-> "Revealed", seal |-> s] : s \in Seals}

SeqsUpTo(S, n) == UNION {[1 .. k -> S] : k \in 0 .. n}

\* Error::UnsatisfiedSchemaRequirement
UnsatisfiedSchemaRequirement == [kind |-> "UnsatisfiedSchemaRequirement"]

\* Error::InflationAssignmentConfidential(NodeId)
InflationAssignmentConfidential(id) ==
    [kind |-> "InflationAssignmentConfidential", id |-> id]

\* Error::EpochSealConfidential(NodeId)
EpochSealConfidential(id) == [kind |-> "EpochSealConfidential", id |-> id]

\* Error::BurnSealConfidential(NodeId)
BurnSealConfidential(id) == [kind |-> "BurnSealConfidential", id |-> id]

\* The error `OutPoint::try_from(seal)?` converts into: the seal of a genesis
\* names no transaction.
GenesisSeal == [kind |-> "GenesisSeal"]

\* node.metadata().u64(field).first(): the first value of the field, if any
first(values) == IF values = <<>> THEN None ELSE Some(values[1])

\* node.owned_rights_by_type(t): the assignments of that right type, if the
\* operation has the right type at all
owned_rights_by_type(node, t) == node.owned_rights[t]

\* AssignmentVec::as_revealed_owned_value: every (seal, amount) pair, or an
\* error as soon as one assignment is confidential
as_revealed_owned_value(assignments) ==
    IF \E i \in 1 .. Len(assignments) : assignments[i].kind = "Confidential"
    THEN Err("ConfidentialDataError")
    ELSE Ok(assignments)

\* revealed_seals_by_type that skips the confidential seals instead of failing
revealed_seals_by_type_skipping(node, t) ==
    LET rights == owned_rights_by_type(node, t)
        list   == IF rights.some THEN rights.v ELSE <<>>
    IN  Ok(SelectSeq([i \in 1 .. Len(list) |->
                        IF list[i].kind = "Revealed" THEN list[i].seal ELSE None],
                     LAMBDA x : x # None))

\* node.revealed_seals_by_type(t): the revealed seals of the right type in
\* order (none when the type is absent), or an error when one is confidential
revealed_seals_by_type(node, t) ==
    LET rights == owned_rights_by_type(node, t)
        list   == IF rights.some THEN rights.v ELSE <<>>
    IN  IF \E i \in 1 .. Len(list) : list[i].kind = "Confidential"
        THEN Err("ConfidentialDataError")
        ELSE Ok([i \in 1 .. Len(list) |-> list[i].seal])

\* OutPoint::from(seal.to_outpoint_reveal(witness)): a seal without txid is an
\* output of the witness transaction
to_outpoint_reveal(seal, witness) ==
    OutPoint(IF seal.txid.some THEN seal.txid.v ELSE witness, seal.vout)

\* OutPoint::try_from(seal): fails for a seal that leaves its txid to a witness
OutPoint_try_from(seal) ==
    IF seal.txid.some THEN Ok(OutPoint(seal.txid.v, seal.vout)) ELSE Err(GenesisSeal)

\* Genesis::contract_id(): the contract id is the genesis' node id
contract_id_of(genesis) == IF genesis.node_id = "n1" THEN "c1" ELSE "c2"

----------------------------------------------------------------------------
(* Issue *)

EmptyMap == [o \in {} |-> o]

\* u64 `+=`: panics on overflow in a build with overflow checks, wraps otherwise
u64_add(a, b) ==
    IF a + b > AtomicValueMax
    THEN IF overflow_checks THEN Panic ELSE Ok((a + b) % Modulus)
    ELSE Ok(a + b)

\* The body of the fold closure of Issue::with and of TryFrom<&Genesis>:
\*   let item = assignments.entry(outpoint).or_insert((0, vec![]));
\*   item.0 += amount.value;  item.1.push(index as u16);
fold_step(assignments, index, outpoint, amount) ==
    LET item == IF outpoint \in DOMAIN assignments
                THEN assignments[outpoint]
                ELSE [amount |-> 0, indexes |-> <<>>]
        sum  == u64_add(item.amount, amount)
    IN  IF sum.tag = "Panic"
        THEN Panic
        ELSE Ok([o \in DOMAIN assignments \cup {outpoint} |->
                   IF o = outpoint
                   THEN [amount  |-> sum.val,
                         indexes |-> Append(item.indexes, index % U16Modulus)]
                   ELSE assignments[o]])

\* .into_iter().enumerate().fold(BTreeMap::new(), ..) of Issue::with, from the
\* i-th pair on (enumerate counts from 0)
RECURSIVE fold_transition(_, _, _, _)
fold_transition(acc, pairs, i, witness) ==
    IF i > Len(pairs)
    THEN Ok(acc)
    ELSE LET step == fold_step(acc, i - 1,
                               to_outpoint_reveal(pairs[i].seal, witness),
                               pairs[i].amount)
         IN  IF step.tag = "Ok"
             THEN fold_transition(step.val, pairs, i + 1, witness)
             ELSE step

\* .try_fold(BTreeMap::new(), ..) of TryFrom<&Genesis>: stops at the first seal
\* that does not resolve
RECURSIVE fold_genesis(_, _, _)
fold_genesis(acc, pairs, i) ==
    IF i > Len(pairs)
    THEN Ok(acc)
    ELSE LET outpoint == OutPoint_try_from(pairs[i].seal)
         IN  IF outpoint.tag = "Err"
             THEN outpoint
             ELSE LET step == fold_step(acc, i - 1, outpoint.val, pairs[i].amount)
                  IN  IF step.tag = "Ok"
                      THEN fold_genesis(step.val, pairs, i + 1)
                      ELSE step

\* Issue::with
Issue_with(contract_id, closes, transition, witness) ==
    LET id     == transition.node_id
        amount == first(transition.metadata["IssuedSupply"])
        rights == owned_rights_by_type(transition, "Inflation")
        pairs  == IF rights.some THEN as_revealed_owned_value(rights.v) ELSE Ok(<<>>)
    IN  IF ~amount.some THEN Err(UnsatisfiedSchemaRequirement)
        ELSE IF pairs.tag = "Err" THEN Err(InflationAssignmentConfidential(id))
        ELSE LET inflation_assignments == fold_transition(EmptyMap, pairs.val, 1, witness)
             IN  IF inflation_assignments.tag = "Panic" THEN Panic
                 ELSE Ok([node_id               |-> id,
                          contract_id           |-> contract_id,
                          amount                |-> amount.v,
                          closes                |-> closes,
                          inflation_assignments |-> inflation_assignments.val,
                          witness               |-> Some(witness)])

\* the genesis taken through the transition constructor
Issue_try_from_as_transition(genesis) ==
    Issue_with(contract_id_of(genesis), {}, genesis, "t1")

\* impl TryFrom<&Genesis> for Issue
Issue_try_from(genesis) ==
    LET id     == genesis.node_id
        amount == first(genesis.metadata["IssuedSupply"])
        rights == owned_rights_by_type(genesis, "Inflation")
        pairs  == IF rights.some THEN as_revealed_owned_value(rights.v) ELSE Ok(<<>>)
    IN  IF ~amount.some THEN Err(UnsatisfiedSchemaRequirement)
        ELSE IF pairs.tag = "Err" THEN Err(InflationAssignmentConfidential(id))
        ELSE LET inflation_assignments == fold_genesis(EmptyMap, pairs.val, 1)
             IN  IF inflation_assignments.tag # "Ok" THEN inflation_assignments
                 ELSE Ok([node_id               |-> id,
                          contract_id           |-> contract_id_of(genesis),
                          amount                |-> amount.v,
                          closes                |-> {},
                          inflation_assignments |-> inflation_assignments.val,
                          witness               |-> None])

\* Issue::is_primary
is_primary(self) == self.closes = {}

\* is_secondary asking for more than one closed seal
is_secondary_many(self) == Cardinality(self.closes) > 1

\* Issue::is_secondary
is_secondary(self) == ~(self.closes = {})

\* The operations the caller may hand to the Issue extraction: the issued
\* supply field present or not, the inflation right type present or not.
IssueNodes ==
    [node_id      : NodeIds,
     metadata     : [IssuedSupply : SeqsUpTo(AtomicValue, 1)],
     owned_rights : [Inflation : Option(SeqsUpTo(ValueAssignments, MaxAssignments))]]

\* The sets of closed seals the caller may pass to Issue::with.
ClosesSets == SUBSET {OutPoint("t2", 0)}

InitIssue ==
    /\ component = "Issue"
    /\ overflow_checks \in BOOLEAN
    /\ args \in [contract_id : ContractIds,
                 closes      : ClosesSets,
                 node        : IssueNodes,
                 witness     : Txids]
    /\ pc = "start"
    /\ ret = NoValue
    /\ out = NoValue

IssueWith ==
    /\ component = "Issue"
    /\ pc = "start"
    /\ ret' = Issue_with(args.contract_id, args.closes, args.node, args.witness)
    /\ pc' = "transition"
    /\ UNCHANGED <<overflow_checks, component, args, out>>

\* Issue::try_from takes the genesis alone.
InitGenesis ==
    /\ component = "Genesis"
    /\ overflow_checks \in BOOLEAN
    /\ args \in [node : IssueNodes]
    /\ pc = "start"
    /\ ret = NoValue
    /\ out = NoValue

IssueTryFrom ==
    /\ component = "Genesis"
    /\ pc = "start"
    /\ ret' = Issue_try_from(args.node)
    /\ pc' = "genesis"
    /\ UNCHANGED <<overflow_checks, component, args, out>>

----------------------------------------------------------------------------
(* Epoch *)

\* the last seal of the list taken instead of the first
last_outpoint(seals, witness) ==
    IF seals = <<>> THEN None ELSE Some(to_outpoint_reveal(seals[Len(seals)], witness))

\* .first().copied().map(|seal| seal.to_outpoint_reveal(witness)).map(OutPoint::from)
first_outpoint(seals, witness) ==
    IF seals = <<>> THEN None ELSE Some(to_outpoint_reveal(seals[1], witness))

\* Epoch::with
Epoch_with(contract_id, no, closes, transition, operations, witness) ==
    LET id          == transition.node_id
        epoch_seals == revealed_seals_by_type(transition, "OpenEpoch")
        seals       == revealed_seals_by_type(transition, "BurnReplace")
    IN  IF epoch_seals.tag = "Err" THEN Err(EpochSealConfidential(id))
        ELSE IF seals.tag = "Err" THEN Err(BurnSealConfidential(id))
        ELSE LET epoch_seal == first_outpoint(epoch_seals.val, witness)
                 seal       == first_outpoint(seals.val, witness)
             IN  Ok([node_id          |-> id,
                     no               |-> no,
                     contract_id      |-> contract_id,
                     closes           |-> closes,
                     epoch_seal       |-> epoch_seal,
                     seal             |-> seal,
                     is_final         |-> ~epoch_seal.some,
                     is_unlocked      |-> seal.some,
                     known_operations |-> operations,
                     witness          |-> witness])

\* The epoch-opening transitions the caller may hand to Epoch::with.
EpochNodes ==
    [node_id      : NodeIds,
     owned_rights : [OpenEpoch   : Option(SeqsUpTo(SealAssignments, MaxAssignments)),
                     BurnReplace : Option(SeqsUpTo(SealAssignments, MaxAssignments))]]

\* The seal a caller says the operation closed.
ClosedSeals == {OutPoint("t2", 0), OutPoint("t2", 1)}

\* The burn and replace operations a caller already knows of: Epoch::with
\* stores the list as it is, so its elements stay opaque.
KnownOperations == {<<>>, <<"b1">>}

InitEpoch ==
    /\ component = "Epoch"
    /\ overflow_checks \in BOOLEAN
    /\ args \in [contract_id : ContractIds,
                 no          : {1, 2},
                 closes      : ClosedSeals,
                 node        : EpochNodes,
                 operations  : KnownOperations,
                 witness     : Txids]
    /\ pc = "start"
    /\ ret = NoValue
    /\ out = NoValue

EpochWith ==
    /\ component = "Epoch"
    /\ pc = "start"
    /\ ret' = Epoch_with(args.contract_id, args.no, args.closes, args.node,
                         args.operations, args.witness)
    /\ pc' = "built"
    /\ UNCHANGED <<overflow_checks, component, args, out>>

----------------------------------------------------------------------------
(* BurnReplace *)

\* u64 `-`: panics on overflow in a build with overflow checks, wraps otherwise
u64_sub(a, b) ==
    IF a < b
    THEN IF overflow_checks THEN Panic ELSE Ok((a - b + Modulus) % Modulus)
    ELSE Ok(a - b)

\* BurnReplace::with
BurnReplace_with(contract_id, epoch_id, no, closes, transition, witness) ==
    LET id               == transition.node_id
        seals            == revealed_seals_by_type(transition, "BurnReplace")
        does_replacement == transition.transition_type = "BurnAndReplace"
        burned_amount    == first(transition.metadata["BurnedSupply"])
        replaced_amount  == first(transition.metadata["IssuedSupply"])
    IN  IF seals.tag = "Err" THEN Err(BurnSealConfidential(id))
        ELSE IF ~burned_amount.some THEN Err(UnsatisfiedSchemaRequirement)
        ELSE IF ~replaced_amount.some THEN Err(UnsatisfiedSchemaRequirement)
        ELSE LET seal          == first_outpoint(seals.val, witness)
                 supply_change == u64_sub(burned_amount.v, replaced_amount.v)
             IN  IF supply_change.tag = "Panic" THEN Panic
                 ELSE Ok([node_id          |-> id,
                          epoch_id         |-> epoch_id,
                          no               |-> no,
                          contract_id      |-> contract_id,
                          closes           |-> closes,
                          does_replacement |-> does_replacement,
                          burned_amount    |-> burned_amount.v,
                          replaced_amount  |-> replaced_amount.v,
                          supply_change    |-> supply_change.val,
                          is_final         |-> ~seal.some,
                          seal             |-> seal,
                          witness          |-> witness])

\* The burn and burn-and-replace transitions the caller may hand to
\* BurnReplace::with.
BurnNodes ==
    [node_id         : NodeIds,
     transition_type : {"Burn", "BurnAndReplace"},
     metadata        : [BurnedSupply : SeqsUpTo(AtomicValue, 1),
                        IssuedSupply : SeqsUpTo(AtomicValue, 1)],
     owned_rights    : [BurnReplace : Option(SeqsUpTo(SealAssignments, MaxAssignments))]]

InitBurnReplace ==
    /\ component = "BurnReplace"
    /\ overflow_checks \in BOOLEAN
    /\ args \in [contract_id : ContractIds,
                 epoch_id    : NodeIds,
                 no          : {1, 2},
                 closes      : ClosedSeals,
                 node        : BurnNodes,
                 witness     : Txids]
    /\ pc = "start"
    /\ ret = NoValue
    /\ out = NoValue

BurnReplaceWith ==
    /\ component = "BurnReplace"
    /\ pc = "start"
    /\ ret' = BurnReplace_with(args.contract_id, args.epoch_id, args.no,
                               args.closes, args.node, args.witness)
    /\ pc' = "built"
    /\ UNCHANGED <<overflow_checks, component, args, out>>

----------------------------------------------------------------------------
(* Specifications *)

Init == InitSupply \/ InitIssue \/ InitGenesis \/ InitEpoch \/ InitBurnReplace

Next ==
    \/ SupplyWith
    \/ SupplyDefault
    \/ TotalCirculating
    \/ IssueWith
    \/ IssueTryFrom
    \/ EpochWith
    \/ BurnReplaceWith

Spec == Init /\ [][Next]_vars

NextSupply == SupplyWith \/ SupplyDefault \/ TotalCirculating

SpecSupply == InitSupply /\ [][NextSupply]_vars

NextIssue == IssueWith \/ IssueTryFrom

SpecIssue == (InitIssue \/ InitGenesis) /\ [][NextIssue]_vars

SpecEpoch == InitEpoch /\ [][EpochWith]_vars

SpecBurnReplace == InitBurnReplace /\ [][BurnReplaceWith]_vars

NextSeals == EpochWith \/ BurnReplaceWith

SpecSeals == (InitEpoch \/ InitBurnReplace) /\ [][NextSeals]_vars

NextExtraction == IssueWith \/ IssueTryFrom \/ EpochWith \/ BurnReplaceWith

SpecExtraction ==
    (InitIssue \/ InitGenesis \/ InitEpoch \/ InitBurnReplace) /\ [][NextExtraction]_vars

----------------------------------------------------------------------------
(* What the claims speak of, read off the caller's arguments *)

Called == pc # "start"

\* the assignments of a right type of the operation passed, <<>> if it has none
RightsOf(t) ==
    IF args.node.owned_rights[t].some THEN args.node.owned_rights[t].v ELSE <<>>

HasConfidential(t) ==
    \E i \in 1 .. Len(RightsOf(t)) : RightsOf(t)[i].kind = "Confidential"

\* the transaction output a revealed seal stands for
Resolved(seal) ==
    IF seal.txid.some
    THEN [txid |-> seal.txid.v, vout |-> seal.vout]
    ELSE IF pc = "genesis"
         THEN [txid |-> "unresolved", vout |-> seal.vout]
         ELSE [txid |-> args.witness, vout |-> seal.vout]

\* a genesis has no witness: a seal that names no transaction cannot resolve
UnresolvedGenesisSeal ==
    /\ pc = "genesis"
    /\ \E i \in 1 .. Len(RightsOf("Inflation")) : ~RightsOf("Inflation")[i].seal.txid.some

RECURSIVE SumAmounts(_, _)
SumAmounts(pairs, S) ==
    IF S = {} THEN 0
    ELSE LET i == CHOOSE x \in S : TRUE
         IN  pairs[i].amount + SumAmounts(pairs, S \ {i})

RECURSIVE Ascending(_)
Ascending(S) ==
    IF S = {} THEN <<>>
    ELSE LET m == CHOOSE x \in S : \A y \in S : x <= y
         IN  <<m>> \o Ascending(S \ {m})

\* positions (from 1) of the inflation assignments that go to outpoint o
PositionsOf(o) ==
    {i \in 1 .. Len(RightsOf("Inflation")) : Resolved(RightsOf("Inflation")[i].seal) = o}

InflationSeals ==
    {Resolved(RightsOf("Inflation")[i].seal) : i \in 1 .. Len(RightsOf("Inflation"))}

\* inflation rights aggregated by destination seal, in unbounded integers
ExpectedAssignments ==
    [o \in InflationSeals |->
        [amount  |-> SumAmounts(RightsOf("Inflation"), PositionsOf(o)),
         indexes |-> Ascending({i - 1 : i \in PositionsOf(o)})]]

IssuedDeclared == args.node.metadata["IssuedSupply"] # <<>>

IssueExtracted == component \in {"Issue", "Genesis"} /\ Called

\* some destination seal is assigned more than an AtomicValue holds
InflationSumOverflows ==
    \E o \in InflationSeals :
        SumAmounts(RightsOf("Inflation"), PositionsOf(o)) > AtomicValueMax

----------------------------------------------------------------------------
(* Claims *)

\* C1: total_circulating() returns Some(known_circulating) if and only if
\* is_known is Some(true), and None in the two other states; it never returns
\* another value than known_circulating.
C1_TotalCirculatingOnlyWhenKnown ==
    (component = "Supply" /\ pc = "queried") =>
        out = (IF ret.is_known = Some(TRUE)
               THEN [some |-> TRUE, v |-> ret.known_circulating]
               ELSE [some |-> FALSE])

C1_Witness ==
    /\ component = "Supply"
    /\ pc = "queried"
    /\ ret.is_known = Some(TRUE)
    /\ ret.known_circulating = AtomicValueMax
    /\ out = Some(AtomicValueMax)

\* C2: every outcome of BurnReplace::with is an error or a record whose
\* supply_change is the non-negative integer burned_amount - replaced_amount:
\* the subtraction neither wraps nor aborts.
C2_SupplyChangeGuarded ==
    (component = "BurnReplace" /\ pc = "built") =>
        /\ ret.tag # "Panic"
        /\ ret.tag = "Ok" =>
              /\ ret.val.burned_amount >= ret.val.replaced_amount
              /\ ret.val.supply_change = ret.val.burned_amount - ret.val.replaced_amount

\* C3: a pure-burn transition with the burned-supply field b and no
\* issued-supply field (and no confidential seal) yields a record with
\* replaced_amount 0 and supply_change b.
C3_PureBurnWithoutIssuedSupply ==
    (/\ component = "BurnReplace"
     /\ pc = "built"
     /\ args.node.transition_type = "Burn"
     /\ args.node.metadata["BurnedSupply"] # <<>>
     /\ args.node.metadata["IssuedSupply"] = <<>>
     /\ ~HasConfidential("BurnReplace")) =>
        /\ ret.tag = "Ok"
        /\ ret.val.replaced_amount = 0
        /\ ret.val.supply_change = args.node.metadata["BurnedSupply"][1]

\* C4: for every sequence of revealed inflation assignments, the Issue built
\* from the genesis or from the transition has one entry per distinct resolved
\* seal, holding the exact sum of the amounts assigned to the seal and the
\* positions of those assignments in increasing order.
C4_InflationAggregatedBySeal ==
    (/\ IssueExtracted
     /\ IssuedDeclared
     /\ ~HasConfidential("Inflation")
     /\ ~UnresolvedGenesisSeal) =>
        /\ ret.tag = "Ok"
        /\ ret.val.inflation_assignments = ExpectedAssignments

\* C5: an Issue built from a genesis is primary and has no witness; an Issue
\* built by Issue::with is secondary and has a witness, whatever closes set
\* the caller passes.
C5_PrimaryIffFromGenesis ==
    (IssueExtracted /\ ret.tag = "Ok") =>
        /\ pc = "genesis" => (is_primary(ret.val) /\ ~ret.val.witness.some)
        /\ pc = "transition" => (is_secondary(ret.val) /\ ret.val.witness.some)

\* C6: a Supply produced without cap information, the default-constructed one
\* included, has issue_limit equal to the largest AtomicValue.
C6_IssueLimitDefaultsToMax ==
    (component = "Supply" /\ pc = "default") => ret.issue_limit = AtomicValueMax

----------------------------------------------------------------------------
(* The defects of an operation that the extraction reports *)

Extracted ==
    /\ component \in {"Issue", "Genesis", "Epoch", "BurnReplace"}
    /\ Called

MissingIssuedSupply ==
    /\ component \in {"Issue", "Genesis", "BurnReplace"}
    /\ args.node.metadata["IssuedSupply"] = <<>>

MissingBurnedSupply ==
    /\ component = "BurnReplace"
    /\ args.node.metadata["BurnedSupply"] = <<>>

ConfidentialInflation ==
    /\ component \in {"Issue", "Genesis"}
    /\ HasConfidential("Inflation")

ConfidentialEpochSeal == component = "Epoch" /\ HasConfidential("OpenEpoch")

ConfidentialBurnSeal ==
    /\ component \in {"Epoch", "BurnReplace"}
    /\ HasConfidential("BurnReplace")

AnyDefect ==
    \/ MissingIssuedSupply
    \/ MissingBurnedSupply
    \/ ConfidentialInflation
    \/ ConfidentialEpochSeal
    \/ ConfidentialBurnSeal

\* the error is of the kind named for a defect the operation has
ErrorNamesItsCause ==
    \/ ret.err = UnsatisfiedSchemaRequirement
          /\ (MissingIssuedSupply \/ MissingBurnedSupply)
    \/ ret.err = InflationAssignmentConfidential(args.node.node_id)
          /\ ConfidentialInflation
    \/ ret.err.kind = "EpochSealConfidential" /\ ConfidentialEpochSeal
    \/ ret.err.kind = "BurnSealConfidential" /\ ConfidentialBurnSeal

\* the arithmetic of the extraction leaves the range of AtomicValue
ArithmeticOverflows ==
    \/ component \in {"Issue", "Genesis"} /\ InflationSumOverflows
    \/ /\ component = "BurnReplace"
       /\ ~MissingBurnedSupply
       /\ ~MissingIssuedSupply
       /\ args.node.metadata["BurnedSupply"][1] < args.node.metadata["IssuedSupply"][1]

ExpectedSeal(t) ==
    IF RightsOf(t) = <<>>
    THEN [some |-> FALSE]
    ELSE [some |-> TRUE,
          v    |-> [txid |-> IF RightsOf(t)[1].seal.txid.some
                             THEN RightsOf(t)[1].seal.txid.v
                             ELSE args.witness,
                    vout |-> RightsOf(t)[1].seal.vout]]

\* C9: every Epoch built has is_final = epoch_seal.is_none() and is_unlocked
\* = seal.is_some(), every BurnReplace built has is_final = seal.is_none(),
\* and each seal is the first revealed seal of its right type resolved
\* against the witness, or absent when the transition has none.
C9_FlagsFollowSeals ==
    (component \in {"Epoch", "BurnReplace"} /\ Called /\ ret.tag = "Ok") =>
        /\ ret.val.seal = ExpectedSeal("BurnReplace")
        /\ component = "Epoch" =>
              /\ ret.val.epoch_seal = ExpectedSeal("OpenEpoch")
              /\ ret.val.is_final = (ret.val.epoch_seal = None)
              /\ ret.val.is_unlocked = (ret.val.seal # None)
        /\ component = "BurnReplace" =>
              ret.val.is_final = (ret.val.seal = None)

C9_Witness ==
    /\ component = "Epoch"
    /\ pc = "built"
    /\ ret.tag = "Ok"
    /\ Len(RightsOf("OpenEpoch")) = 2
    /\ RightsOf("OpenEpoch")[1].seal # RightsOf("OpenEpoch")[2].seal
    /\ ~ret.val.is_final
    /\ ~ret.val.is_unlocked
    /\ ret.val.epoch_seal = Some(OutPoint(args.witness, 0))

\* C10: for every Issue record, from a genesis or a transition and whatever
\* its closes set, exactly one of is_primary() and is_secondary() is true,
\* and is_primary() is closes.is_empty().
C10_PrimaryXorSecondary ==
    (IssueExtracted /\ ret.tag = "Ok") =>
        /\ is_primary(ret.val) # is_secondary(ret.val)
        /\ is_primary(ret.val) = (Cardinality(ret.val.closes) = 0)
        /\ pc = "transition" => ret.val.closes = args.closes

C10_Witness ==
    /\ component = "Issue"
    /\ pc = "transition"
    /\ ret.tag = "Ok"
    /\ args.closes # {}
    /\ is_secondary(ret.val)
    /\ ~is_primary(ret.val)

====
